---- MODULE Spec2Model ----
(***************************************************************************)
(* Model of the predictive-maintenance core of IOTsensor:                  *)
(* backend/ml_predictor.py (class MLPredictor) over the CSV tables of      *)
(* backend/database.py.                                                    *)
(*                                                                         *)
(* Units.  Temperatures, usage hours, efficiency and oil level are the     *)
(* integers of the readings.  Vibration is in hundredths (0.3 is 30).      *)
(* Risk scores, confidences and anomaly scores are in thousandths          *)
(* (0.4 is 400, 0.15 is 150, 0.95 is 950), which represents every value    *)
(* the code can compute exactly: rule scores are multiples of 0.05 and a   *)
(* fused score is half the sum of a rule score and a multiple of 0.5.      *)
(***************************************************************************)
EXTENDS Integers, Sequences, FiniteSets, TLC

VARIABLES
    strict_nan,     \* the installed scikit-learn rejects NaN in model inputs
    sensor_df,      \* rows of data/sensor_data.csv, oldest first
    equipment_df,   \* rows of data/equipment.csv
    models,         \* MLPredictor.models: name -> model object
    train_pc,       \* position of the running _train_models call, or "idle"
    train_run,      \* number of _train_models calls started so far
    train_y,        \* local y_train of the running call (labels of the fit rows)
    train_X,        \* local X of the running call: its columns and its rows
    train_at,       \* where the running call raised, "" when it did not
    outcome,        \* how the last finished _train_models call ended
    serving,        \* main.py:41 has bound ml_predictor: requests are served
    call,           \* the last inference call: operation, argument, locals
    result,         \* the value the last inference call returned
    insight_history,    \* AIInsightsEngine.insight_history
    patterns_detected,  \* AIInsightsEngine.patterns_detected
    adding          \* the add_sensor_data calls: position, row, local df

vars == << strict_nan, sensor_df, equipment_df, models, train_pc, train_run, train_y,
           train_X, train_at, outcome, serving, call, result,
           insight_history, patterns_detected, adding >>

-----------------------------------------------------------------------------
(* Bounds of the model.                                                    *)

\* longest sensor table of an initial state
MaxRows == 12
\* number of _train_models calls (the one of __init__ and the retrains)
MaxTrainRuns == 2
\* latest reading of the clock, datetime.now(), in ticks
MaxTime == 1

\* the longest run of equal readings in a batch of the insights engine
MaxRun == 10

\* number of add_sensor_data calls
MaxAdds == 3

-----------------------------------------------------------------------------
(* Small helpers.                                                          *)

Min(a, b) == IF a < b THEN a ELSE b

Max(a, b) == IF a > b THEN a ELSE b

Range(s) == { s[i] : i \in DOMAIN s }

\* Optional values: <<>> is Python's None, <<v>> is the value v.
None == << >>

Some(v) == << v >>

\* the sorted sequence of a finite set of integers
RECURSIVE SortedSeq(_)
SortedSeq(S) ==
    IF S = {} THEN << >>
    ELSE LET m == CHOOSE x \in S : \A y \in S : x <= y
         IN  << m >> \o SortedSeq(S \ {m})

-----------------------------------------------------------------------------
(* The tables.  A reading (a row of sensor_data.csv) is a record with the  *)
(* fields equipment_id, timestamp, temperature, vibration,                 *)
(* power_consumption, usage_hours and, when the table has these columns,   *)
(* efficiency and oil_level.  An equipment row is [id, status].            *)

\* NaN: what read_csv gives for an empty cell.  Every value of a reading is
\* a non-negative number, so -1 stands for it.
NaN == -1

\* features = ['temperature', 'vibration', 'power_consumption', 'usage_hours']
features == << "temperature", "vibration", "power_consumption", "usage_hours" >>

additional_features ==
    << "humidity", "pressure", "rpm", "efficiency", "oil_level", "noise_level" >>

\* all_features = features + additional_features
all_features == features \o additional_features

\* the columns of a table: those of its rows, none for an empty table
Columns(df) == IF Len(df) = 0 THEN {} ELSE DOMAIN df[1]

\* the feature list of _train_models: the four base features, then the
\* additional features that are columns of the table
TrainFeatures(df) ==
    features \o SelectSeq(additional_features, LAMBDA f : f \in Columns(df))

\* DataFrame.fillna(0) of one value
FillNa(v) == IF v = NaN THEN 0 ELSE v

\* X = sensor_df[features].fillna(0): the feature names and one vector a row
TrainX(df) ==
    LET names == TrainFeatures(df)
    IN  [ features |-> names,
          rows |-> [ i \in 1..Len(df) |->
                       [ j \in 1..Len(names) |-> FillNa(df[i][names[j]]) ] ] ]

\* feature_values of predict_maintenance and detect_anomalies: every
\* feature of the schema, 0 for one the row does not have; the value of a
\* field the row has is taken as it is
FeatureValues(row) ==
    [ j \in 1..Len(all_features) |->
        IF all_features[j] \in DOMAIN row THEN row[all_features[j]] ELSE 0 ]

\* a vector holds a NaN
HasNaN(feature_values) ==
    \E j \in DOMAIN feature_values : feature_values[j] = NaN

\* sensor_df[sensor_df['equipment_id'] == equipment_id]
EquipmentData(df, equipment_id) ==
    SelectSeq(df, LAMBDA row : row.equipment_id = equipment_id)

\* equipment_data.iloc[-1]
Latest(equipment_data) == equipment_data[Len(equipment_data)]

-----------------------------------------------------------------------------
(* The rule-based scorer of predict_maintenance.                           *)

\* the temperature tiers with inclusive thresholds
TemperatureDeltaInclusive(latest_data) ==
    IF latest_data.temperature >= 60 THEN 400
    ELSE IF latest_data.temperature >= 50 THEN 200
    ELSE 0

TemperatureDelta(latest_data) ==
    IF latest_data.temperature > 60 THEN 400
    ELSE IF latest_data.temperature > 50 THEN 200
    ELSE 0

TemperatureFactor(latest_data) ==
    IF latest_data.temperature > 60 THEN << "High temperature" >>
    ELSE IF latest_data.temperature > 50 THEN << "Elevated temperature" >>
    ELSE << >>

VibrationDelta(latest_data) ==
    IF latest_data.vibration > 30 THEN 400
    ELSE IF latest_data.vibration > 20 THEN 200
    ELSE 0

VibrationFactor(latest_data) ==
    IF latest_data.vibration > 30 THEN << "High vibration" >>
    ELSE IF latest_data.vibration > 20 THEN << "Elevated vibration" >>
    ELSE << >>

UsageDelta(latest_data) ==
    IF latest_data.usage_hours > 2000 THEN 300
    ELSE IF latest_data.usage_hours > 1500 THEN 150
    ELSE 0

UsageFactor(latest_data) ==
    IF latest_data.usage_hours > 2000 THEN << "High usage hours" >>
    ELSE IF latest_data.usage_hours > 1500 THEN << "Moderate usage hours" >>
    ELSE << >>

\* risk_score after the three factor blocks: the sum is not clamped
RuleScore(latest_data) ==
    TemperatureDelta(latest_data) + VibrationDelta(latest_data)
        + UsageDelta(latest_data)

\* factors after the three factor blocks
RuleFactors(latest_data) ==
    TemperatureFactor(latest_data) \o VibrationFactor(latest_data)
        \o UsageFactor(latest_data)

-----------------------------------------------------------------------------
(* Model objects.  A model object is a record                              *)
(*   [fitted, run, n_features, classes, out, share]:                       *)
(* fitted is FALSE between the constructor and fit(); run is the           *)
(* _train_models call that made it; n_features is n_features_in_, the      *)
(* number of columns of the X it was fitted on; classes is classes_ of a   *)
(* fitted classifier, the sorted labels of y_train.  A fitted model raises *)
(* on a vector of another length.  What a fitted forest answers            *)
(* for a feature vector is not decided by this code: a fitted model is one *)
(* of a family of deterministic predictors that tell readings above 60     *)
(* degrees from the others.  For the classifier out[1] and out[2] are the  *)
(* argmax positions (0-based, into classes) for the two kinds and share is *)
(* the winning probability; for the anomaly model out[1] and out[2] are    *)
(* the decision_function values.                                           *)

Hot(row) == row.temperature > 60

Kind(row) == IF Hot(row) THEN 2 ELSE 1

\* RandomForestClassifier(...), IsolationForest(...): not fitted yet
Unfitted(run) ==
    [ fitted |-> FALSE, run |-> run, n_features |-> 0, classes |-> << >>,
      out |-> << 0, 0 >>, share |-> 0 ]

\* the answers of the family over k classes: one class for every reading,
\* or the first class for one kind and the last for the other
Answers(k) ==
    { << c, c >> : c \in 0..(k - 1) } \cup { << 0, k - 1 >>, << k - 1, 0 >> }

\* the winning probability: all trees agree when one class is the answer
\* to every reading
Share(out) == IF out[1] = out[2] THEN 1000 ELSE 600

\* the classifiers fit(X_train, y_train) can produce
FittedClassifiers(run, X_features, y_train) ==
    LET classes == SortedSeq(Range(y_train))
    IN  { [ fitted |-> TRUE, run |-> run, n_features |-> Len(X_features),
            classes |-> classes, out |-> out, share |-> Share(out) ] :
          out \in Answers(Len(classes)) }

\* the decision_function values of the family: inlier, outlier, strong outlier
DecisionScores == { 100, -100, -600 }

\* the anomaly models fit(X_train) can produce: at most the hot readings
\* are the outliers
FittedAnomalyModels(run, X_features) ==
    { [ fitted |-> TRUE, run |-> run, n_features |-> Len(X_features),
        classes |-> << >>, out |-> << 100, h >>, share |-> 0 ] :
      h \in DecisionScores }

\* a call of predict_proba, decision_function or predict raises: the model
\* is not fitted, the vector has another length than the fitted X, or the
\* vector holds a NaN and the library is strict about NaN
Raises(model, feature_values, strict) ==
    \/ ~model.fitted
    \/ Len(feature_values) # model.n_features
    \/ HasNaN(feature_values) /\ strict

\* np.argmax(predict_proba([feature_values])[0])
ArgMax(model, latest_data) == model.out[Kind(latest_data)]

\* the class label the classifier predicts: classes_[argmax]
PredictedClass(model, latest_data) ==
    model.classes[ArgMax(model, latest_data) + 1]

\* decision_function([feature_values])[0]
DecisionFunction(model, row) == model.out[Kind(row)]

-----------------------------------------------------------------------------
(* predict_maintenance.                                                    *)

\* round(x, 2) of a non-negative x in thousandths; a tie goes to the even
\* hundredth, as rint does
Round2(x) ==
    LET q == x \div 10
        rem == x % 10
    IN  IF rem < 5 THEN 10 * q
        ELSE IF rem > 5 THEN 10 * (q + 1)
        ELSE IF q % 2 = 0 THEN 10 * q
        ELSE 10 * (q + 1)

\* ml_risk_score = ml_prediction / 2.0
MLRiskScore(ml_prediction) == ml_prediction * 500

\* risk_score = (risk_score + ml_risk_score) / 2
Fuse(risk_score, ml_risk_score) == (risk_score + ml_risk_score) \div 2

\* the ML block: the locals ml_prediction, ml_confidence and risk_score
\* after it.  When predict_proba raises, the except clause leaves the three
\* locals as they were.
MLBlock(ms, latest_data, risk_score, strict) ==
    IF "failure_predictor" \notin DOMAIN ms
    THEN [ ml_prediction |-> None, ml_confidence |-> 0,
           risk_score |-> risk_score, raised |-> FALSE ]
    ELSE LET model == ms["failure_predictor"]
         IN  IF Raises(model, FeatureValues(latest_data), strict)
             THEN [ ml_prediction |-> None, ml_confidence |-> 0,
                    risk_score |-> risk_score, raised |-> TRUE ]
             ELSE LET ml_prediction == ArgMax(model, latest_data)
                  IN  [ ml_prediction |-> Some(ml_prediction),
                        ml_confidence |-> model.share,
                        risk_score |->
                            Fuse(risk_score, MLRiskScore(ml_prediction)),
                        raised |-> FALSE ]

\* the bands with exclusive lower bounds
PredictionExclusive(risk_score) ==
    IF risk_score > 700 THEN "Immediate maintenance required"
    ELSE IF risk_score > 400 THEN "Maintenance recommended within 7 days"
    ELSE IF risk_score > 200 THEN "Routine check recommended"
    ELSE "No maintenance needed"

\* the recommendation band of a final risk_score
Prediction(risk_score) ==
    IF risk_score >= 700 THEN "Immediate maintenance required"
    ELSE IF risk_score >= 400 THEN "Maintenance recommended within 7 days"
    ELSE IF risk_score >= 200 THEN "Routine check recommended"
    ELSE "No maintenance needed"

\* the confidences without the cap of the top band
ConfidenceUncapped(risk_score) ==
    IF risk_score >= 200 THEN risk_score ELSE 1000 - risk_score

\* the local confidence of a final risk_score
Confidence(risk_score) ==
    IF risk_score >= 700 THEN Min(risk_score, 950)
    ELSE IF risk_score >= 400 THEN risk_score
    ELSE IF risk_score >= 200 THEN risk_score
    ELSE 1000 - risk_score

\* the early return of predict_maintenance
NoDataPrediction == [ prediction |-> "No data available", confidence |-> 0 ]

\* the locals of predict_maintenance at its return statement;
\* feature_values is built only when there is a classifier
PredictLocals(df, ms, equipment_id, strict) ==
    LET equipment_data == EquipmentData(df, equipment_id)
    IN  IF Len(df) = 0 \/ Len(equipment_data) = 0
        THEN [ no_data |-> TRUE ]
        ELSE LET latest_data == Latest(equipment_data)
                 rule_score == RuleScore(latest_data)
                 ml == MLBlock(ms, latest_data, rule_score, strict)
             IN  [ no_data |-> FALSE,
                   latest_data |-> latest_data,
                   feature_values |->
                       IF "failure_predictor" \in DOMAIN ms
                       THEN FeatureValues(latest_data)
                       ELSE << >>,
                   rule_score |-> rule_score,
                   factors |-> RuleFactors(latest_data),
                   ml_prediction |-> ml.ml_prediction,
                   ml_confidence |-> ml.ml_confidence,
                   ml_raised |-> ml.raised,
                   risk_score |-> ml.risk_score,
                   prediction |-> Prediction(ml.risk_score),
                   confidence |-> Confidence(ml.risk_score) ]

\* the value predict_maintenance returns
PredictReturn(locals, equipment_id, now) ==
    IF locals.no_data THEN NoDataPrediction
    ELSE [ equipment_id |-> equipment_id,
           prediction |-> locals.prediction,
           confidence |-> Round2(locals.confidence),
           risk_score |-> Round2(locals.risk_score),
           factors |-> locals.factors,
           ml_prediction |-> locals.ml_prediction,
           ml_confidence |-> Round2(locals.ml_confidence),
           timestamp |-> now ]

-----------------------------------------------------------------------------
(* predict_equipment_failure.  Dates are whole days: now is the day of the *)
(* call and strftime('%Y-%m-%d') drops the fraction of a day.              *)

\* the exception that leaves a call; FastAPI answers it with status 500
Raised(exception) == [ raised |-> exception ]

\* failure_probability = min(risk_score * 0.8, 0.95)
FailureProbability(risk_score) == Min((risk_score * 8) \div 10, 950)

\* predicted_date = datetime.now() + timedelta(days=days_ahead * risk_score)
PredictedDate(now, days_ahead, risk_score) ==
    now + (days_ahead * risk_score) \div 1000

\* estimated_cost: maintenance_cost of the equipment row when the table
\* has that column, else 0
EstimatedCost(eq_df, equipment_id) ==
    LET equipment == SelectSeq(eq_df, LAMBDA eq : eq.id = equipment_id)
    IN  IF Len(equipment) > 0 /\ "maintenance_cost" \in DOMAIN equipment[1]
        THEN equipment[1].maintenance_cost
        ELSE 0

\* what predict_equipment_failure returns or raises, given the result of
\* its predict_maintenance call: prediction['risk_score'] is a KeyError
\* when that result has no such key
FailureReturn(prediction, eq_df, equipment_id, days_ahead, now) ==
    IF "risk_score" \notin DOMAIN prediction THEN Raised("KeyError")
    ELSE [ equipment_id |-> equipment_id,
           failure_probability |->
               Round2(FailureProbability(prediction.risk_score)),
           prediction_horizon_days |-> days_ahead,
           predicted_failure_date |->
               PredictedDate(now, days_ahead, prediction.risk_score),
           recommendation |-> prediction.prediction,
           estimated_cost |-> EstimatedCost(eq_df, equipment_id),
           confidence |-> prediction.confidence,
           timestamp |-> now ]

-----------------------------------------------------------------------------
(* detect_anomalies.                                                       *)

\* the early return of detect_anomalies
NoModelResult ==
    [ anomalies |-> << >>,
      message |-> "No anomaly detection model available" ]

\* the rows the loop scans: "if equipment_id:" is false for None and for 0
ScanScope(df, equipment_id) ==
    IF equipment_id # None /\ equipment_id[1] # 0
    THEN EquipmentData(df, equipment_id[1])
    ELSE df

\* the record appended for a flagged row
AnomalyRecord(model, row) ==
    [ equipment_id |-> row.equipment_id,
      timestamp |-> row.timestamp,
      anomaly_score |-> DecisionFunction(model, row),
      severity |-> IF DecisionFunction(model, row) < -500 THEN "High"
                   ELSE "Medium",
      features |-> [ temperature |-> row.temperature,
                     vibration |-> row.vibration,
                     power_consumption |-> row.power_consumption,
                     usage_hours |-> row.usage_hours ] ]

\* is_anomaly: predict([feature_values])[0] == -1
IsAnomaly(model, row) == DecisionFunction(model, row) < 0

\* the rows the loop scores before decision_function raises: all of them
\* when it never does
ScoredRows(model, equipment_data, strict) ==
    LET raising == { i \in 1..Len(equipment_data) :
                       Raises(model, FeatureValues(equipment_data[i]),
                              strict) }
    IN  IF raising = {} THEN equipment_data
        ELSE SubSeq(equipment_data, 1,
                    (CHOOSE i \in raising : \A k \in raising : i <= k) - 1)

\* the list anomalies after the try block: the except clause keeps what
\* the loop appended before a call raised
ScanAnomalies(model, equipment_data, strict) ==
    LET flagged == SelectSeq(ScoredRows(model, equipment_data, strict),
                             LAMBDA row : IsAnomaly(model, row))
    IN  [ i \in 1..Len(flagged) |-> AnomalyRecord(model, flagged[i]) ]

\* the value detect_anomalies returns
DetectReturn(df, ms, equipment_id, now, strict) ==
    IF Len(df) = 0 \/ "anomaly_detector" \notin DOMAIN ms
    THEN NoModelResult
    ELSE LET anomalies == ScanAnomalies(ms["anomaly_detector"],
                                        ScanScope(df, equipment_id),
                                        strict)
         IN  [ anomalies |-> anomalies,
               total_anomalies |-> Len(anomalies),
               timestamp |-> now ]

-----------------------------------------------------------------------------
(* get_equipment_health_score.                                             *)

HealthTemperature(latest_data) ==
    IF latest_data.temperature > 60 THEN 30
    ELSE IF latest_data.temperature > 50 THEN 15
    ELSE IF latest_data.temperature < 20 THEN 10
    ELSE 0

HealthVibration(latest_data) ==
    IF latest_data.vibration > 30 THEN 25
    ELSE IF latest_data.vibration > 20 THEN 10
    ELSE 0

\* the block is skipped when the table has no efficiency column
HealthEfficiency(latest_data) ==
    IF "efficiency" \notin DOMAIN latest_data THEN 0
    ELSE IF latest_data.efficiency < 70 THEN 20
    ELSE IF latest_data.efficiency < 80 THEN 10
    ELSE 0

\* the block is skipped when the table has no oil_level column
HealthOilLevel(latest_data) ==
    IF "oil_level" \notin DOMAIN latest_data THEN 0
    ELSE IF latest_data.oil_level < 30 THEN 25
    ELSE IF latest_data.oil_level < 50 THEN 10
    ELSE 0

HealthUsage(latest_data) ==
    IF latest_data.usage_hours > 2000 THEN 15
    ELSE IF latest_data.usage_hours > 1500 THEN 5
    ELSE 0

\* health_score before the clamp
RawHealthScore(latest_data) ==
    100 - HealthTemperature(latest_data) - HealthVibration(latest_data)
        - HealthEfficiency(latest_data) - HealthOilLevel(latest_data)
        - HealthUsage(latest_data)

\* the clamp without its lower bound
ClampHealthNoFloor(health_score) == Min(100, health_score)

\* health_score = max(0, min(100, health_score))
ClampHealth(health_score) == Max(0, Min(100, health_score))

HealthStatus(health_score) ==
    IF health_score >= 90 THEN "Excellent"
    ELSE IF health_score >= 75 THEN "Good"
    ELSE IF health_score >= 60 THEN "Fair"
    ELSE IF health_score >= 40 THEN "Poor"
    ELSE "Critical"

\* the early return of get_equipment_health_score
NoDataHealth == [ health_score |-> 0, status |-> "No data" ]

\* the value get_equipment_health_score returns
HealthReturn(df, equipment_id, now) ==
    LET equipment_data == EquipmentData(df, equipment_id)
    IN  IF Len(df) = 0 \/ Len(equipment_data) = 0
        THEN NoDataHealth
        ELSE LET health_score ==
                     ClampHealth(RawHealthScore(Latest(equipment_data)))
             IN  [ equipment_id |-> equipment_id,
                   health_score |-> health_score,
                   status |-> HealthStatus(health_score),
                   timestamp |-> now ]

-----------------------------------------------------------------------------
(* _train_models.                                                          *)

\* equipment_status_map; a status it does not hold maps to NaN (None)
StatusLabel(status) ==
    IF status = "Active" THEN Some(0)
    ELSE IF status = "Warning" THEN Some(1)
    ELSE IF status = "Critical" THEN Some(2)
    ELSE None

\* sensor_df['failure_risk'] of a row: the mapped status of its equipment,
\* NaN when the equipment table has no row for it
FailureRisk(row, eq_df) ==
    LET matches == SelectSeq(eq_df, LAMBDA eq : eq.id = row.equipment_id)
    IN  IF Len(matches) = 0 THEN None ELSE StatusLabel(matches[1].status)

\* y = sensor_df['failure_risk'].fillna(0)
FillNa0(label) == IF label = None THEN 0 ELSE label[1]

\* y after the valid_indices filter: fillna(0) left no NaN to remove
TargetY(df, eq_df) == [ i \in 1..Len(df) |-> FillNa0(FailureRisk(df[i], eq_df)) ]

\* if len(X) > 10
EnoughRows(n) == n > 10

\* the size of the test part of train_test_split(test_size=0.2)
TestSize(n) == (n + 4) \div 5

\* the y_train parts train_test_split can produce: which rows the seeded
\* shuffle holds out is left open
TrainParts(y) ==
    LET n == Len(y)
        keep(T) == SelectSeq([ i \in 1..n |-> << i, y[i] >> ],
                             LAMBDA p : p[1] \notin T)
    IN  { [ i \in 1..(n - TestSize(n)) |-> keep(T)[i][2] ] :
          T \in { U \in SUBSET (1..n) : Cardinality(U) = TestSize(n) } }

\* no X: no _train_models call is past line 43
NoX == [ features |-> << >>, rows |-> << >> ]

\* self.models = {}
NoModels == [ name \in {} |-> Unfitted(0) ]

\* self.models[name] = model
SetModel(ms, name, model) ==
    [ n \in DOMAIN ms \cup { name } |-> IF n = name THEN model ELSE ms[n] ]

\* lines 21-52: read the tables, build X and y, check the size, split
TrainPrepare ==
    /\ train_pc = "prepare"
    /\ IF Len(sensor_df) = 0 \/ Len(equipment_df) = 0
       THEN /\ train_pc' = "idle"
            /\ outcome' = "no_data"
            /\ train_y' = << >>
            /\ train_X' = NoX
       ELSE IF EnoughRows(Len(TargetY(sensor_df, equipment_df)))
       THEN /\ train_pc' = "new_classifier"
            /\ train_y' \in TrainParts(TargetY(sensor_df, equipment_df))
            /\ train_X' = TrainX(sensor_df)
            /\ UNCHANGED outcome
       ELSE /\ train_pc' = "idle"
            /\ outcome' = "insufficient"
            /\ train_y' = << >>
            /\ train_X' = NoX
    /\ UNCHANGED << insight_history, patterns_detected, adding, strict_nan, sensor_df, equipment_df, models, train_run, train_at,
                    serving, call, result >>

\* line 54: the new classifier enters self.models before it is fitted
TrainNewClassifier ==
    /\ train_pc = "new_classifier"
    /\ models' = SetModel(models, "failure_predictor", Unfitted(train_run))
    /\ train_pc' = "fit_classifier"
    /\ UNCHANGED << insight_history, patterns_detected, adding, strict_nan, sensor_df, equipment_df, train_run, train_y, train_X, train_at,
                    outcome, serving, call, result >>

\* line 55: fit() fits the object self.models holds, in place
TrainFitClassifier ==
    /\ train_pc = "fit_classifier"
    /\ \E model \in FittedClassifiers(train_run, train_X.features, train_y) :
           models' = SetModel(models, "failure_predictor", model)
    /\ train_pc' = "new_anomaly"
    /\ UNCHANGED << insight_history, patterns_detected, adding, strict_nan, sensor_df, equipment_df, train_run, train_y, train_X, train_at,
                    outcome, serving, call, result >>

\* line 58: the new anomaly model enters self.models before it is fitted
TrainNewAnomaly ==
    /\ train_pc = "new_anomaly"
    /\ models' = SetModel(models, "anomaly_detector", Unfitted(train_run))
    /\ train_pc' = "fit_anomaly"
    /\ UNCHANGED << insight_history, patterns_detected, adding, strict_nan, sensor_df, equipment_df, train_run, train_y, train_X, train_at,
                    outcome, serving, call, result >>

\* lines 59-61: fit() in place, then the success message and the return
TrainFitAnomaly ==
    /\ train_pc = "fit_anomaly"
    /\ \E model \in FittedAnomalyModels(train_run, train_X.features) :
           models' = SetModel(models, "anomaly_detector", model)
    /\ train_pc' = "idle"
    /\ outcome' = "trained"
    /\ train_y' = << >>
    /\ train_X' = NoX
    /\ UNCHANGED << insight_history, patterns_detected, adding, strict_nan, sensor_df, equipment_df, train_run, train_at, serving,
                    call, result >>

\* a statement of the try block raises: reading the tables or building X
\* and y (lines 21-52), fitting the classifier (55), fitting the anomaly
\* model (59)
TrainRaise ==
    /\ train_pc \in { "prepare", "fit_classifier", "fit_anomaly" }
    /\ train_at' = train_pc
    /\ train_pc' = "except"
    /\ UNCHANGED << insight_history, patterns_detected, adding, strict_nan, sensor_df, equipment_df, models, train_run, train_y, train_X,
                    outcome, serving, call, result >>

\* the except clause without its "self.models = {}"
TrainExceptKeepsModels ==
    /\ train_pc = "except"
    /\ train_pc' = "idle"
    /\ outcome' = "failed"
    /\ train_y' = << >>
    /\ train_X' = NoX
    /\ UNCHANGED << insight_history, patterns_detected, adding, strict_nan, sensor_df, equipment_df, models, train_run, train_at,
                    serving, call, result >>

\* lines 65-68: the except clause
TrainExcept ==
    /\ train_pc = "except"
    /\ models' = NoModels
    /\ train_pc' = "idle"
    /\ outcome' = "failed"
    /\ train_y' = << >>
    /\ train_X' = NoX
    /\ UNCHANGED << insight_history, patterns_detected, adding, strict_nan, sensor_df, equipment_df, train_run, train_at, serving,
                    call, result >>

\* main.py:41: MLPredictor() has returned and requests are served
StartServing ==
    /\ ~serving
    /\ train_pc = "idle"
    /\ serving' = TRUE
    /\ UNCHANGED << insight_history, patterns_detected, adding, strict_nan, sensor_df, equipment_df, models, train_pc, train_run,
                    train_y, train_X, train_at, outcome, call, result >>

\* a retrain: _train_models is called again on the serving predictor
Retrain ==
    /\ serving
    /\ train_pc = "idle"
    /\ train_run < MaxTrainRuns
    /\ train_run' = train_run + 1
    /\ train_pc' = "prepare"
    /\ train_at' = ""
    /\ UNCHANGED << insight_history, patterns_detected, adding, strict_nan, sensor_df, equipment_df, models, train_y, train_X, outcome,
                    serving, call, result >>

-----------------------------------------------------------------------------
(* The requests.  call records what the call was and saw, result what it   *)
(* returned.                                                               *)

\* the equipment ids of the requests: 1 and 2 are in the equipment table,
\* 3 is not
EquipmentIds == 1..3

\* the values datetime.now() takes
Times == 0..MaxTime

\* the earliest and the latest of them
EndTimes == { 0, MaxTime }

NoCall == [ op |-> "none" ]

\* predict_maintenance with a cleanup "self.models = {}" after its ML block
PredictMaintenanceClearsModels(equipment_id, now) ==
    /\ serving
    /\ LET locals == PredictLocals(sensor_df, models, equipment_id, strict_nan)
       IN  /\ call' = [ op |-> "predict_maintenance",
                        equipment_id |-> equipment_id,
                        models |-> models,
                        idle |-> train_pc = "idle",
                        outcome |-> outcome,
                        locals |-> locals ]
           /\ result' = PredictReturn(locals, equipment_id, now)
    /\ models' = NoModels
    /\ UNCHANGED << insight_history, patterns_detected, adding, strict_nan, sensor_df, equipment_df, train_pc, train_run,
                    train_y, train_X, train_at, outcome, serving >>

PredictMaintenance(equipment_id, now) ==
    /\ serving
    /\ LET locals == PredictLocals(sensor_df, models, equipment_id, strict_nan)
       IN  /\ call' = [ op |-> "predict_maintenance",
                        equipment_id |-> equipment_id,
                        models |-> models,
                        idle |-> train_pc = "idle",
                        outcome |-> outcome,
                        locals |-> locals ]
           /\ result' = PredictReturn(locals, equipment_id, now)
    /\ UNCHANGED << insight_history, patterns_detected, adding, strict_nan, sensor_df, equipment_df, models, train_pc, train_run,
                    train_y, train_X, train_at, outcome, serving >>

PredictEquipmentFailure(equipment_id, days_ahead, now) ==
    /\ serving
    /\ LET locals == PredictLocals(sensor_df, models, equipment_id, strict_nan)
           prediction == PredictReturn(locals, equipment_id, now)
       IN  /\ call' = [ op |-> "predict_equipment_failure",
                        equipment_id |-> equipment_id,
                        days_ahead |-> days_ahead,
                        models |-> models,
                        idle |-> train_pc = "idle",
                        outcome |-> outcome,
                        prediction |-> prediction ]
           /\ result' = FailureReturn(prediction, equipment_df, equipment_id,
                                      days_ahead, now)
    /\ UNCHANGED << insight_history, patterns_detected, adding, strict_nan, sensor_df, equipment_df, models, train_pc,
                    train_run, train_y, train_X, train_at, outcome, serving >>

\* detect_anomalies with "self.models = {}" in its except clause, as the
\* except clause of _train_models has
DetectAnomaliesResetsModels(equipment_id, now) ==
    /\ serving
    /\ call' = [ op |-> "detect_anomalies",
                 equipment_id |-> equipment_id,
                 models |-> models,
                 idle |-> train_pc = "idle",
                 outcome |-> outcome ]
    /\ result' = DetectReturn(sensor_df, models, equipment_id, now, strict_nan)
    /\ models' =
           IF /\ Len(sensor_df) > 0
              /\ "anomaly_detector" \in DOMAIN models
              /\ ScoredRows(models["anomaly_detector"],
                            ScanScope(sensor_df, equipment_id), strict_nan)
                    # ScanScope(sensor_df, equipment_id)
           THEN NoModels
           ELSE models
    /\ UNCHANGED << insight_history, patterns_detected, adding, strict_nan, sensor_df, equipment_df, train_pc, train_run,
                    train_y, train_X, train_at, outcome, serving >>

DetectAnomalies(equipment_id, now) ==
    /\ serving
    /\ call' = [ op |-> "detect_anomalies",
                 equipment_id |-> equipment_id,
                 models |-> models,
                 idle |-> train_pc = "idle",
                 outcome |-> outcome ]
    /\ result' = DetectReturn(sensor_df, models, equipment_id, now, strict_nan)
    /\ UNCHANGED << insight_history, patterns_detected, adding, strict_nan, sensor_df, equipment_df, models, train_pc, train_run,
                    train_y, train_X, train_at, outcome, serving >>

GetEquipmentHealthScore(equipment_id, now) ==
    /\ serving
    /\ call' = [ op |-> "get_equipment_health_score",
                 equipment_id |-> equipment_id,
                 models |-> models,
                 idle |-> train_pc = "idle",
                 outcome |-> outcome,
                 equipment_data |-> EquipmentData(sensor_df, equipment_id) ]
    /\ result' = HealthReturn(sensor_df, equipment_id, now)
    /\ UNCHANGED << insight_history, patterns_detected, adding, strict_nan, sensor_df, equipment_df, models, train_pc, train_run,
                    train_y, train_X, train_at, outcome, serving >>

-----------------------------------------------------------------------------
(* The initial tables and the specification of training and serving.       *)

\* the readings of the three machines of the initial tables: equipment 1
\* runs hot, equipment 2 is elevated on vibration and usage, equipment 3
\* is over every threshold
MachineReading(equipment_id, timestamp) ==
    IF equipment_id = 1
    THEN [ equipment_id |-> 1, timestamp |-> timestamp, temperature |-> 65,
           vibration |-> 10, power_consumption |-> 1500, usage_hours |-> 100,
           humidity |-> 50, pressure |-> 5, rpm |-> 1000,
           efficiency |-> 85, oil_level |-> 60, noise_level |-> 70 ]
    ELSE IF equipment_id = 2
    THEN [ equipment_id |-> 2, timestamp |-> timestamp, temperature |-> 45,
           vibration |-> 25, power_consumption |-> 1200, usage_hours |-> 1600,
           humidity |-> 50, pressure |-> 5, rpm |-> 1000,
           efficiency |-> 75, oil_level |-> 40, noise_level |-> 70 ]
    ELSE [ equipment_id |-> 3, timestamp |-> timestamp, temperature |-> 70,
           vibration |-> 40, power_consumption |-> 2500, usage_hours |-> 2500,
           humidity |-> 50, pressure |-> 5, rpm |-> 1000,
           efficiency |-> 60, oil_level |-> 20, noise_level |-> 70 ]

\* n1 readings of equipment 1, then n2 of equipment 2, then n3 of equipment 3
MachineTable(n1, n2, n3) ==
    [ i \in 1..(n1 + n2 + n3) |->
        MachineReading(IF i <= n1 THEN 1 ELSE IF i <= n1 + n2 THEN 2 ELSE 3, i) ]

\* equipment 1 and 2 have a row, equipment 3 has none
EquipmentTable(status1, status2) ==
    << [ id |-> 1, status |-> status1 ], [ id |-> 2, status |-> status2 ] >>

NoResult == [ none |-> TRUE ]

\* no add_sensor_data call has been made
NoAdding == << >>

\* AIInsightsEngine.__init__ has run, and no add_sensor_data call
EngineConstructed ==
    /\ insight_history = << >>
    /\ patterns_detected = << >>
    /\ adding = NoAdding

\* MLPredictor.__init__ has set self.models = {} and calls _train_models
Constructing ==
    /\ EngineConstructed
    /\ models = NoModels
    /\ train_pc = "prepare"
    /\ train_run = 1
    /\ train_y = << >>
    /\ train_X = NoX
    /\ train_at = ""
    /\ outcome = "none"
    /\ serving = FALSE
    /\ call = NoCall
    /\ result = NoResult

\* the tables of training next to serving: no readings, 10 readings (too
\* few to train), MaxRows readings; equipment 3 has no reading
ServedTables ==
    { << >>, MachineTable(8, 2, 0), MachineTable(MaxRows - 2, 2, 0) }

Init ==
    /\ strict_nan = TRUE
    /\ sensor_df \in ServedTables
    /\ equipment_df = EquipmentTable("Critical", "Critical")
    /\ Constructing

\* the days_ahead arguments of predict_equipment_failure
DaysAhead == { 0, 30 }

\* the equipment_id arguments of detect_anomalies: absent, 0, or an id
DetectArguments == { None } \cup { Some(e) : e \in 0..3 }

Train ==
    \/ TrainPrepare
    \/ TrainNewClassifier
    \/ TrainFitClassifier
    \/ TrainNewAnomaly
    \/ TrainFitAnomaly
    \/ TrainRaise
    \/ TrainExcept

Serve ==
    \/ \E e \in EquipmentIds, now \in EndTimes : PredictMaintenance(e, now)
    \/ \E e \in EquipmentIds, days_ahead \in DaysAhead, now \in EndTimes :
           PredictEquipmentFailure(e, days_ahead, now)
    \/ \E e \in DetectArguments, now \in EndTimes : DetectAnomalies(e, now)
    \/ \E e \in EquipmentIds, now \in EndTimes :
           GetEquipmentHealthScore(e, now)

Next ==
    \/ Train
    \/ StartServing
    \/ Retrain
    \/ Serve

\* training at construction and on retrain, next to the requests
Spec == Init /\ [][Next]_vars

-----------------------------------------------------------------------------
(* Training alone, over tables of 9 to MaxRows rows and every labelling.   *)

\* the empty table and the tables of 9 to MaxRows rows
TrainingTables ==
    { << >> } \cup
    { MachineTable(t[1], t[2], t[3]) :
        t \in { u \in (0..MaxRows) \X (0..1) \X (0..1) :
                  /\ u[1] + u[2] + u[3] <= MaxRows
                  /\ u[1] + u[2] + u[3] >= 9 } }

TrainingEquipment ==
    { << >> } \cup
    { EquipmentTable(s1, s2) :
        s1 \in { "Active", "Critical", "Idle" }, s2 \in { "Active", "Warning" } }

InitTrain ==
    /\ strict_nan = TRUE
    /\ sensor_df \in TrainingTables
    /\ equipment_df \in TrainingEquipment
    /\ Constructing

NextTrain ==
    \/ Train
    \/ StartServing
    \/ Retrain

SpecTrain == InitTrain /\ [][NextTrain]_vars

-----------------------------------------------------------------------------
(* The requests alone, over the readings around every threshold and every  *)
(* model a finished training run can have left.                            *)

BaseColumns ==
    { "equipment_id", "timestamp", "temperature", "vibration",
      "power_consumption", "usage_hours" }

\* every column of SensorData this model reads
AllColumns == BaseColumns \cup Range(additional_features)

\* the columns a table has: all, or all but some the health score reads
ColumnSets ==
    { AllColumns \ missing : missing \in SUBSET { "efficiency", "oil_level" } }

\* a row cut to the columns of its table
Project(row, columns) == [ c \in columns |-> row[c] ]

\* the latest reading of equipment 1 in the tables of the requests
ScoredReading(temperature, vibration, usage_hours, efficiency, oil_level) ==
    [ equipment_id |-> 1, timestamp |-> 11, temperature |-> temperature,
      vibration |-> vibration, power_consumption |-> 1500,
      usage_hours |-> usage_hours, humidity |-> 50, pressure |-> 5,
      rpm |-> 1000, efficiency |-> efficiency, oil_level |-> oil_level,
      noise_level |-> 70 ]

\* twelve rows: eight readings of equipment 2, one of equipment 3, an older
\* reading of equipment 1, its latest reading, a later one of equipment 2
ScoredTable(latest_data, columns) ==
    LET rows == MachineTable(0, 8, 1)
                  \o << MachineReading(1, 10), latest_data, MachineReading(2, 12) >>
    IN  [ i \in 1..Len(rows) |-> Project(rows[i], columns) ]

\* the readings around the thresholds of the rule scorer, and the readings
\* {65, 0.1, 100}, {45, 0.1, 100} and {70, 0.4, 2500}
RiskReadings ==
    { ScoredReading(t, v, u, 85, 60) :
        t \in { 50, 51, 60, 61 }, v \in { 20, 21, 30, 31 },
        u \in { 1500, 1501, 2000, 2001 } }
    \cup { ScoredReading(65, 10, 100, 85, 60), ScoredReading(45, 10, 100, 85, 60),
           ScoredReading(61, 10, 100, 85, 60), ScoredReading(70, 40, 2500, 60, 20) }

\* the readings around the thresholds of the health score
HealthReadings ==
    { ScoredReading(t, v, u, e, o) :
        t \in { 19, 20, 50, 51, 60, 61 }, v \in { 20, 21, 30, 31 },
        u \in { 1500, 1501, 2000, 2001 }, e \in { 69, 70, 79, 80 },
        o \in { 29, 30, 49, 50 } }
    \cup { ScoredReading(70, 40, 2500, 60, 20) }

\* the bundles a finished _train_models call can have left for the tables
Bundles(df, eq_df) ==
    { SetModel(SetModel(NoModels, "failure_predictor", classifier),
               "anomaly_detector", anomaly) :
        classifier \in UNION { FittedClassifiers(1, TrainFeatures(df), y_train) :
                                 y_train \in TrainParts(TargetY(df, eq_df)) },
        anomaly \in { m \in FittedAnomalyModels(1, TrainFeatures(df)) :
                        m.out[2] = -600 } }

\* the predictor serves after its first training run, which raised or left
\* one of the bundles
Served(bundles) ==
    /\ EngineConstructed
    /\ train_pc = "idle"
    /\ train_run = 1
    /\ train_y = << >>
    /\ train_X = NoX
    /\ serving = TRUE
    /\ call = NoCall
    /\ result = NoResult
    /\ \/ /\ models = NoModels
          /\ outcome = "failed"
          /\ train_at = "prepare"
       \/ /\ models \in bundles
          /\ outcome = "trained"
          /\ train_at = ""

InitScore ==
    /\ strict_nan = TRUE
    /\ sensor_df \in { ScoredTable(r, AllColumns) : r \in RiskReadings }
    /\ equipment_df \in { EquipmentTable("Critical", "Warning"),
                          EquipmentTable("Critical", "Active") }
    /\ Served(Bundles(sensor_df, equipment_df))

\* equipment 0 has no reading in the tables
NextScore ==
    \/ \E e \in EquipmentIds \cup { 0 }, now \in EndTimes :
           PredictMaintenance(e, now)
    \/ \E e \in DetectArguments, now \in EndTimes : DetectAnomalies(e, now)

\* predict_maintenance and detect_anomalies over the readings around the
\* thresholds of the rule scorer
SpecScore == InitScore /\ [][NextScore]_vars

InitHealth ==
    /\ strict_nan = TRUE
    /\ sensor_df \in { ScoredTable(r, columns) :
                         r \in HealthReadings, columns \in ColumnSets }
    /\ equipment_df = EquipmentTable("Critical", "Warning")
    /\ Served({})

NextHealth ==
    \E e \in EquipmentIds, now \in Times : GetEquipmentHealthScore(e, now)

\* get_equipment_health_score over the readings around its thresholds
SpecHealth == InitHealth /\ [][NextHealth]_vars

-----------------------------------------------------------------------------
(* Training and requests over tables that lack optional columns or values. *)
(* The generators write no noise_level column and only one of them writes  *)
(* rpm; a reading posted without an optional field has an empty cell.      *)

\* the rows that can hold the empty cell: the oldest and the latest reading
\* of equipment 1
GapRows == { 1, MaxRows - 3 }

\* a table of MaxRows - 1 rows cut to the columns, the reading of equipment
\* 1 in row at with an empty cell in the column gap (none for "")
FeatureTable(columns, gap, at) ==
    LET rows == MachineTable(MaxRows - 3, 2, 0)
    IN  [ i \in 1..Len(rows) |->
            LET row == Project(rows[i], columns)
            IN  IF i = at /\ gap \in columns
                THEN [ row EXCEPT ![gap] = NaN ]
                ELSE row ]

FeatureTables ==
    { FeatureTable(AllColumns \ missing, gap, at) :
        missing \in SUBSET { "rpm", "noise_level" },
        gap \in { "", "humidity", "noise_level" },
        at \in GapRows }

InitFeatures ==
    /\ strict_nan \in BOOLEAN
    /\ sensor_df \in FeatureTables
    /\ equipment_df = EquipmentTable("Critical", "Active")
    /\ Constructing

NextFeatures ==
    \/ Train
    \/ StartServing
    \/ \E e \in EquipmentIds, now \in Times : PredictMaintenance(e, now)
    \/ \E e \in DetectArguments, now \in Times : DetectAnomalies(e, now)

\* training at construction, then requests, whatever columns the table has
SpecFeatures == InitFeatures /\ [][NextFeatures]_vars

-----------------------------------------------------------------------------
(* The insights engine (ai_insights.py).  A reading object has the fields  *)
(* of SensorData the families read; temperatures are degrees, vibrations   *)
(* hundredths of a mm/s, powers watts and efficiencies percent.  Means are *)
(* compared exactly: a mean is kept as its sum and its count.              *)

\* SensorData(**row.to_dict()): an optional field the table has no column
\* for takes its default None
SensorObject(row) ==
    [ equipment_id |-> row.equipment_id,
      timestamp |-> row.timestamp,
      temperature |-> row.temperature,
      vibration |-> row.vibration,
      power_consumption |-> row.power_consumption,
      efficiency |-> IF "efficiency" \in DOMAIN row
                     THEN Some(row.efficiency) ELSE None ]

\* sensor_objects of get_ai_insights
SensorObjects(df) == [ i \in 1..Len(df) |-> SensorObject(df[i]) ]

\* sum(values)
RECURSIVE Sum(_)
Sum(values) ==
    IF values = << >> THEN 0 ELSE Head(values) + Sum(Tail(values))

\* max(values) of a non-empty list
MaxOf(values) ==
    CHOOSE v \in Range(values) : \A w \in Range(values) : w <= v

\* the AIInsight a family appends
AIInsight(id, type, title, confidence, impact, category, data_points) ==
    [ id |-> id, type |-> type, title |-> title, confidence |-> confidence,
      impact |-> impact, category |-> category, data_points |-> data_points ]

\* the keys of equipment_sensors, in the order the grouping loop adds them
RECURSIVE EquipmentOrder(_)
EquipmentOrder(sensor_data) ==
    IF sensor_data = << >> THEN << >>
    ELSE LET before == EquipmentOrder(SubSeq(sensor_data, 1,
                                             Len(sensor_data) - 1))
             equipment_id == sensor_data[Len(sensor_data)].equipment_id
         IN  IF equipment_id \in Range(before) THEN before
             ELSE Append(before, equipment_id)

\* equipment_sensors[equipment_id]
EquipmentSensors(sensor_data, equipment_id) ==
    SelectSeq(sensor_data, LAMBDA s : s.equipment_id = equipment_id)

\* the family looks at an equipment whatever the number of its readings
AnyDataPoints(sensors) == TRUE

\* the negation of "if len(sensors) < 5: continue"
MinimumDataPoints(sensors) == ~(Len(sensors) < 5)

\* [s.temperature for s in sensors if s.temperature is not None]
Temperatures(sensors) == [ i \in 1..Len(sensors) |-> sensors[i].temperature ]

\* [s.vibration for s in sensors if s.vibration is not None]
Vibrations(sensors) == [ i \in 1..Len(sensors) |-> sensors[i].vibration ]

\* max_temp > avg_temp * 1.3
TemperatureSpike(temperatures) ==
    /\ temperatures # << >>
    /\ 10 * MaxOf(temperatures) * Len(temperatures) > 13 * Sum(temperatures)

\* max_vibration > avg_vibration * 1.5
VibrationSpike(vibrations) ==
    /\ vibrations # << >>
    /\ 2 * MaxOf(vibrations) * Len(vibrations) > 3 * Sum(vibrations)

\* the list insights of _detect_anomalies after the body of its loop for
\* one equipment
DetectEquipment(history, insights, sensor_data, equipment_id) ==
    LET sensors == EquipmentSensors(sensor_data, equipment_id)
        temperatures == Temperatures(sensors)
        vibrations == Vibrations(sensors)
        after_temperature ==
            IF TemperatureSpike(temperatures)
            THEN Append(insights,
                     AIInsight(Len(history) + Len(insights) + 1, "anomaly",
                               "Temperature Anomaly Detected", 850, "high",
                               "safety",
                               [ equipment_id |-> equipment_id,
                                 temperature |-> MaxOf(temperatures),
                                 average |-> << Sum(temperatures),
                                                Len(temperatures) >> ]))
            ELSE insights
    IN  IF ~MinimumDataPoints(sensors) THEN insights
        ELSE IF VibrationSpike(vibrations)
        THEN Append(after_temperature,
                 AIInsight(Len(history) + Len(after_temperature) + 1,
                           "anomaly", "Vibration Anomaly Detected", 900,
                           "high", "safety",
                           [ equipment_id |-> equipment_id,
                             vibration |-> MaxOf(vibrations),
                             average |-> << Sum(vibrations),
                                            Len(vibrations) >> ]))
        ELSE after_temperature

\* the loop of _detect_anomalies over the equipment ids
RECURSIVE DetectLoop(_, _, _, _)
DetectLoop(history, insights, sensor_data, ids) ==
    IF ids = << >> THEN insights
    ELSE DetectLoop(history,
                    DetectEquipment(history, insights, sensor_data, Head(ids)),
                    sensor_data, Tail(ids))

\* _detect_anomalies
DetectSpikes(history, sensor_data, equipment_data) ==
    DetectLoop(history, << >>, sensor_data, EquipmentOrder(sensor_data))

\* what the random module gives for one equipment: random.random() is not
\* below 0.15 (None), or it is and the confidence 0.7 + random.random() * 0.2
\* is at one end of its interval
MaintenanceDraws == { None, Some(700), Some(899) }

\* the loop of _predict_maintenance: draws[i] belongs to equipment_data[i]
RECURSIVE MaintenanceLoop(_, _, _, _, _)
MaintenanceLoop(history, insights, equipment_data, draws, i) ==
    IF i > Len(equipment_data) THEN insights
    ELSE MaintenanceLoop(history,
             IF draws[i] = None THEN insights
             ELSE Append(insights,
                      AIInsight(Len(history) + Len(insights) + 1,
                                "prediction", "Predictive Maintenance Alert",
                                draws[i][1], "medium", "maintenance",
                                [ equipment_id |-> equipment_data[i].id,
                                  confidence |-> draws[i][1] ])),
             equipment_data, draws, i + 1)

\* _predict_maintenance
PredictMaintenanceWindows(history, equipment_data, draws) ==
    MaintenanceLoop(history, << >>, equipment_data, draws, 1)

\* [s.efficiency for s in sensors if s.efficiency is not None]
Efficiencies(sensors) ==
    LET given == SelectSeq(sensors, LAMBDA s : s.efficiency # None)
    IN  [ i \in 1..Len(given) |-> given[i].efficiency[1] ]

\* sensor_data[-10:]
RecentSensors(sensor_data) ==
    SubSeq(sensor_data, Len(sensor_data) - 9, Len(sensor_data))

\* sensor_data[-20:-10] if len(sensor_data) >= 20 else sensor_data[:-10]
OlderSensors(sensor_data) ==
    IF Len(sensor_data) >= 20
    THEN SubSeq(sensor_data, Len(sensor_data) - 19, Len(sensor_data) - 10)
    ELSE SubSeq(sensor_data, 1, Len(sensor_data) - 10)

\* efficiency_change < -0.05 for the two lists of efficiencies: a NaN in
\* either makes the change NaN, which is below nothing
EfficiencyDecline(recent, older) ==
    /\ NaN \notin Range(recent) \cup Range(older)
    /\ 20 * (Sum(recent) * Len(older) - Sum(older) * Len(recent))
           < 0 - Len(recent) * Len(older)

\* _analyze_efficiency: the division by the length of an empty list raises
AnalyzeEfficiency(history, sensor_data) ==
    IF Len(sensor_data) < 10 \/ OlderSensors(sensor_data) = << >>
    THEN [ raised |-> FALSE, insights |-> << >> ]
    ELSE LET recent == Efficiencies(RecentSensors(sensor_data))
             older == Efficiencies(OlderSensors(sensor_data))
         IN  IF recent = << >> \/ older = << >>
             THEN [ raised |-> TRUE, insights |-> << >> ]
             ELSE IF EfficiencyDecline(recent, older)
             THEN [ raised |-> FALSE,
                    insights |->
                        << AIInsight(Len(history) + 1, "trend",
                               "Efficiency Decline Detected", 750, "medium",
                               "efficiency",
                               [ current_efficiency |->
                                     << Sum(recent), Len(recent) >>,
                                 previous_efficiency |->
                                     << Sum(older), Len(older) >> ]) >> ]
             ELSE [ raised |-> FALSE, insights |-> << >> ]

\* _analyze_energy_consumption: avg_power > 2000
AnalyzeEnergyConsumption(history, sensor_data) ==
    LET power_readings ==
            [ i \in 1..Len(sensor_data) |-> sensor_data[i].power_consumption ]
    IN  IF /\ power_readings # << >>
           /\ Sum(power_readings) > 2000 * Len(power_readings)
        THEN << AIInsight(Len(history) + 1, "optimization",
                          "High Energy Consumption Alert", 800, "medium",
                          "energy",
                          [ average_power |-> << Sum(power_readings),
                                                 Len(power_readings) >> ]) >>
        ELSE << >>

\* the violations the loop of _analyze_safety_metrics counts for one reading
Violations(sensor) ==
    (IF sensor.temperature # 0 /\ sensor.temperature > 80 THEN 1 ELSE 0)
        + (IF sensor.vibration # 0 /\ sensor.vibration > 500 THEN 1 ELSE 0)

\* safety_violations over sensor_data[-5:], or all of a shorter list
SafetyViolations(sensor_data) ==
    LET recent_sensors ==
            IF Len(sensor_data) >= 5
            THEN SubSeq(sensor_data, Len(sensor_data) - 4, Len(sensor_data))
            ELSE sensor_data
    IN  Sum([ i \in 1..Len(recent_sensors) |-> Violations(recent_sensors[i]) ])

\* _analyze_safety_metrics
AnalyzeSafetyMetrics(history, sensor_data) ==
    IF sensor_data # << >> /\ SafetyViolations(sensor_data) > 2
    THEN << AIInsight(Len(history) + 1, "safety",
                      "Safety Alert - Multiple Violations", 950, "high",
                      "safety",
                      [ safety_violations |-> SafetyViolations(sensor_data),
                        timeframe |-> "last 5 readings" ]) >>
    ELSE << >>

\* every family reads the history with the insights of the families before
\* it added
GenerateInsightsSharedHistory(history, sensor_data, equipment_data, draws) ==
    LET anomaly_insights == DetectSpikes(history, sensor_data, equipment_data)
        h1 == history \o anomaly_insights
        maintenance_insights ==
            PredictMaintenanceWindows(h1, equipment_data, draws)
        h2 == h1 \o maintenance_insights
        efficiency == AnalyzeEfficiency(h2, sensor_data)
        h3 == h2 \o efficiency.insights
        energy_insights == AnalyzeEnergyConsumption(h3, sensor_data)
        h4 == h3 \o energy_insights
    IN  [ anomaly_insights |-> anomaly_insights,
          maintenance_insights |-> maintenance_insights,
          raised |-> efficiency.raised,
          efficiency_insights |-> efficiency.insights,
          energy_insights |->
              IF efficiency.raised THEN << >> ELSE energy_insights,
          safety_insights |->
              IF efficiency.raised THEN << >>
              ELSE AnalyzeSafetyMetrics(h4, sensor_data) ]

\* the locals of generate_insights when it returns or raises: the two
\* families after _analyze_efficiency do not run when it raises
GenerateInsights(history, sensor_data, equipment_data, draws) ==
    LET efficiency == AnalyzeEfficiency(history, sensor_data)
    IN  [ anomaly_insights |->
              DetectSpikes(history, sensor_data, equipment_data),
          maintenance_insights |->
              PredictMaintenanceWindows(history, equipment_data, draws),
          raised |-> efficiency.raised,
          efficiency_insights |-> efficiency.insights,
          energy_insights |->
              IF efficiency.raised THEN << >>
              ELSE AnalyzeEnergyConsumption(history, sensor_data),
          safety_insights |->
              IF efficiency.raised THEN << >>
              ELSE AnalyzeSafetyMetrics(history, sensor_data) ]

\* the list generate_insights returns
ReturnedInsights(locals) ==
    locals.anomaly_insights \o locals.maintenance_insights
        \o locals.efficiency_insights \o locals.energy_insights
        \o locals.safety_insights

\* GET /api/ai-insights: the handler reads both tables, converts the rows
\* and returns the insights; a ZeroDivisionError leaves the handler
GetAiInsights(draws) ==
    LET sensor_objects == SensorObjects(sensor_df)
        locals == GenerateInsights(insight_history, sensor_objects,
                                   equipment_df, draws)
    IN  /\ Len(draws) = Len(equipment_df)
        /\ call' = [ op |-> "generate_insights",
                     draws |-> draws,
                     insight_history |-> insight_history,
                     patterns_detected |-> patterns_detected,
                     sensor_objects |-> sensor_objects,
                     locals |-> locals ]
        /\ result' = IF locals.raised THEN Raised("ZeroDivisionError")
                     ELSE [ insights |-> ReturnedInsights(locals) ]
        /\ UNCHANGED << insight_history, patterns_detected, adding,
                        strict_nan, sensor_df, equipment_df, models, train_pc,
                        train_run, train_y, train_X, train_at, outcome,
                        serving >>

-----------------------------------------------------------------------------
(* The insights request over batches of three runs of equal readings.      *)

\* the readings of the batches: equipment 1 calm or over both safety
\* thresholds, equipment 2 calm and a little less efficient, equipment 3
\* (which has no equipment row) over the temperature threshold
InsightReading(kind, timestamp) ==
    IF kind = "calm1"
    THEN [ equipment_id |-> 1, timestamp |-> timestamp, temperature |-> 50,
           vibration |-> 20, power_consumption |-> 1500, efficiency |-> 85 ]
    ELSE IF kind = "spike1"
    THEN [ equipment_id |-> 1, timestamp |-> timestamp, temperature |-> 90,
           vibration |-> 600, power_consumption |-> 3000, efficiency |-> 70 ]
    ELSE IF kind = "calm2"
    THEN [ equipment_id |-> 2, timestamp |-> timestamp, temperature |-> 50,
           vibration |-> 20, power_consumption |-> 1500, efficiency |-> 84 ]
    ELSE [ equipment_id |-> 3, timestamp |-> timestamp, temperature |-> 85,
           vibration |-> 20, power_consumption |-> 2500, efficiency |-> 85 ]

\* the lengths of a run
RunLengths == { 0, 1, 4, MaxRun }

\* the columns of the batches: all of them, or all but efficiency
InsightColumns ==
    { "equipment_id", "timestamp", "temperature", "vibration",
      "power_consumption", "efficiency" }

\* n1 readings of kind k1, then n2 of kind k2, then n3 of kind k3
InsightTable(k1, n1, k2, n2, k3, n3, columns) ==
    [ i \in 1..(n1 + n2 + n3) |->
        Project(InsightReading(IF i <= n1 THEN k1
                               ELSE IF i <= n1 + n2 THEN k2 ELSE k3, i),
                columns) ]

\* readings of equipment 1, then of any equipment, then of equipment 2 or 3
InsightTables ==
    { InsightTable(k1, n1, k2, n2, k3, n3, InsightColumns \ missing) :
        k1 \in { "calm1", "spike1" }, n1 \in RunLengths,
        k2 \in { "calm1", "spike1", "calm2", "hot3" }, n2 \in RunLengths,
        k3 \in { "calm2", "hot3" }, n3 \in RunLengths,
        missing \in { {}, { "efficiency" } } }

InitInsights ==
    /\ strict_nan = TRUE
    /\ sensor_df \in InsightTables
    /\ equipment_df = EquipmentTable("Active", "Warning")
    /\ Served({})

NextInsights ==
    \E draws \in [ 1..2 -> MaintenanceDraws ] : GetAiInsights(draws)

\* GET /api/ai-insights over the batches, whatever the random module gives
SpecInsights == InitInsights /\ [][NextInsights]_vars

-----------------------------------------------------------------------------
(* add_sensor_data (database.py).  A call reads the whole table, appends   *)
(* its row to the copy it read and writes the copy back; nothing orders    *)
(* the reads and writes of calls made from different threads or server     *)
(* processes.                                                              *)

\* the row of pd.DataFrame([sensor_data.dict()]) as the table shows it after
\* to_csv and read_csv: an optional field left None is an empty cell
PostedRow(sensor_data) ==
    [ c \in DOMAIN sensor_data |->
        IF c \in { "equipment_id", "timestamp" } THEN sensor_data[c]
        ELSE IF sensor_data[c] = None THEN NaN
        ELSE sensor_data[c][1] ]

\* pd.concat([df, new_df], ignore_index=True): the columns are the union
\* of both, a row has an empty cell in a column it did not have
Concat(df, new_row) ==
    LET columns == UNION { DOMAIN df[i] : i \in 1..Len(df) }
                       \cup DOMAIN new_row
        Widen(row) == [ c \in columns |->
                          IF c \in DOMAIN row THEN row[c] ELSE NaN ]
    IN  [ i \in 1..(Len(df) + 1) |->
            IF i <= Len(df) THEN Widen(df[i]) ELSE Widen(new_row) ]

\* df = self.get_sensor_data(), new_df = pd.DataFrame([sensor_data.dict()])
AddSensorDataRead(sensor_data) ==
    /\ Len(adding) < MaxAdds
    /\ adding' = Append(adding, [ pc |-> "write",
                                  new_row |-> PostedRow(sensor_data),
                                  df |-> sensor_df ])
    /\ UNCHANGED << insight_history, patterns_detected, strict_nan,
                    sensor_df, equipment_df, models, train_pc, train_run,
                    train_y, train_X, train_at, outcome, serving, call,
                    result >>

\* updated_df = pd.concat(...), self.write_csv(self.sensor_data_file,
\* updated_df) of call i
AddSensorDataWrite(i) ==
    /\ i \in 1..Len(adding)
    /\ adding[i].pc = "write"
    /\ sensor_df' = Concat(adding[i].df, adding[i].new_row)
    /\ adding' = [ adding EXCEPT ![i].pc = "done" ]
    /\ UNCHANGED << insight_history, patterns_detected, strict_nan,
                    equipment_df, models, train_pc, train_run, train_y,
                    train_X, train_at, outcome, serving, call, result >>

\* the reading the k-th call posts: equipment 1 or 2, with or without the
\* optional humidity; its timestamp is the time of the call
PostedReading(equipment_id, humidity, k) ==
    [ equipment_id |-> equipment_id, timestamp |-> 100 + k,
      temperature |-> Some(55), vibration |-> Some(20),
      power_consumption |-> Some(1500), usage_hours |-> Some(100),
      humidity |-> humidity ]

InitAppend ==
    /\ strict_nan = TRUE
    /\ sensor_df \in { << >>, MachineTable(1, 1, 0) }
    /\ equipment_df = EquipmentTable("Active", "Warning")
    /\ Served({})

NextAppend ==
    \/ \E e \in { 1, 2 }, humidity \in { None, Some(50) } :
           AddSensorDataRead(PostedReading(e, humidity, Len(adding) + 1))
    \/ \E i \in 1..MaxAdds : AddSensorDataWrite(i)

\* add_sensor_data calls whose reads and writes interleave
SpecAppend == InitAppend /\ [][NextAppend]_vars

-----------------------------------------------------------------------------
(* The claims.                                                             *)

\* the last call was predict_maintenance and found a latest reading
Scored == call.op = "predict_maintenance" /\ ~call.locals.no_data

\* C1: every result of predict_maintenance for an equipment with a reading
\* has a risk_score in [0,1], whatever the reading and the models.
C1_RiskScoreInUnitInterval ==
    Scored => /\ "risk_score" \in DOMAIN result
              /\ result.risk_score >= 0
              /\ result.risk_score <= 1000

\* C2: predict_maintenance for an equipment without readings returns a
\* result that holds risk_score = 0 and confidence = 0.
C2_NoReadingsSentinel ==
    (call.op = "predict_maintenance" /\ call.locals.no_data)
        => /\ "risk_score" \in DOMAIN result
           /\ result.risk_score = 0
           /\ result.confidence = 0

\* a bundle is whole: both models, both fitted, both of one training run
WholeBundle(ms) ==
    /\ DOMAIN ms = { "failure_predictor", "anomaly_detector" }
    /\ ms["failure_predictor"].fitted
    /\ ms["anomaly_detector"].fitted
    /\ ms["failure_predictor"].run = ms["anomaly_detector"].run

\* C3: the models an inference call sees are no models at all or a whole
\* bundle, also while _train_models runs.
C3_InferenceSeesWholeBundle ==
    call.op \in { "predict_maintenance", "detect_anomalies" }
        => (DOMAIN call.models = {} \/ WholeBundle(call.models))

\* the rows whose equipment has a status of the label map
ValidLabeledRows(df, eq_df) ==
    Cardinality({ i \in 1..Len(df) : FailureRisk(df[i], eq_df) # None })

\* C4: after the first _train_models call ended without an exception, 10 or
\* fewer valid labeled rows leave both models unset and 11 or more set both;
\* after any finished call both are set or both are unset.
C4_TrainingThreshold ==
    /\ (train_pc = "idle" /\ train_run = 1
            /\ outcome \in { "trained", "insufficient", "no_data" })
        => /\ ValidLabeledRows(sensor_df, equipment_df) <= 10
                => DOMAIN models = {}
           /\ ValidLabeledRows(sensor_df, equipment_df) >= 11
                => DOMAIN models = { "failure_predictor", "anomaly_detector" }
    /\ (train_pc = "idle" /\ outcome # "none")
        => DOMAIN models \in { {}, { "failure_predictor", "anomaly_detector" } }

\* C5: when a step of _train_models raised, the call still returns, the
\* models are unset, and the calls after it get the rule-only result of
\* predict_maintenance and the "no model" result of detect_anomalies.
C5_TrainingFailureContained ==
    /\ (train_pc = "idle" /\ train_at # "")
        => (outcome = "failed" /\ DOMAIN models = {})
    /\ (Scored /\ call.idle /\ call.outcome = "failed")
        => /\ result.ml_prediction = None
           /\ result.risk_score = Round2(call.locals.rule_score)
           /\ result.factors = RuleFactors(call.locals.latest_data)
    /\ (call.op = "detect_anomalies" /\ call.idle /\ call.outcome = "failed")
        => /\ result.anomalies = << >>
           /\ "message" \in DOMAIN result

\* C5 witness: the anomaly fit raised after the classifier was fitted, and
\* a later predict_maintenance call scored a reading.
C5_Witness ==
    /\ train_pc = "idle"
    /\ train_at = "fit_anomaly"
    /\ Scored
    /\ call.idle
    /\ call.outcome = "failed"
    /\ result.risk_score > 0

\* C6: detect_anomalies called while no anomaly model is fitted returns an
\* empty list with the explanatory message.
C6_NoModelMessage ==
    (/\ call.op = "detect_anomalies"
     /\ \/ "anomaly_detector" \notin DOMAIN call.models
        \/ ~call.models["anomaly_detector"].fitted)
        => /\ result.anomalies = << >>
           /\ "message" \in DOMAIN result
           /\ result.message = "No anomaly detection model available"

\* the urgency of a recommendation
Urgency(prediction) ==
    IF prediction = "Immediate maintenance required" THEN 3
    ELSE IF prediction = "Maintenance recommended within 7 days" THEN 2
    ELSE IF prediction = "Routine check recommended" THEN 1
    ELSE 0

\* the risk scores the code can compute: the multiples of 0.025 up to 1.1
RiskValues == { 25 * i : i \in 0..44 }

\* C7: the band of a fused score r has inclusive lower bounds 0.7, 0.4, 0.2
\* with confidence min(r, 0.95), r, r, 1 - r; a higher score never gets a
\* less urgent band; {65, 0.1, 100} without a classifier gets "within 7
\* days" with confidence 0.4.
C7_Bands ==
    Scored =>
        LET r == call.locals.risk_score
            confidence == call.locals.confidence
        IN  /\ r >= 700
                => /\ result.prediction = "Immediate maintenance required"
                   /\ confidence = IF r <= 950 THEN r ELSE 950
            /\ (r >= 400 /\ r < 700)
                => /\ result.prediction = "Maintenance recommended within 7 days"
                   /\ confidence = r
            /\ (r >= 200 /\ r < 400)
                => /\ result.prediction = "Routine check recommended"
                   /\ confidence = r
            /\ r < 200
                => /\ result.prediction = "No maintenance needed"
                   /\ confidence = 1000 - r
            /\ result.confidence = Round2(confidence)
            /\ \A higher \in RiskValues :
                   higher >= r
                       => Urgency(Prediction(higher)) >= Urgency(result.prediction)
            /\ (/\ call.locals.latest_data.temperature = 65
                /\ call.locals.latest_data.vibration = 10
                /\ call.locals.latest_data.usage_hours = 100
                /\ "failure_predictor" \notin DOMAIN call.models)
                => /\ r = 400
                   /\ result.prediction = "Maintenance recommended within 7 days"
                   /\ result.confidence = 400

\* C7 witness: the reading {65, 0.1, 100} was scored without a classifier.
C7_Witness ==
    /\ Scored
    /\ call.locals.latest_data.temperature = 65
    /\ call.locals.latest_data.vibration = 10
    /\ call.locals.latest_data.usage_hours = 100
    /\ "failure_predictor" \notin DOMAIN call.models
    /\ result.prediction = "Maintenance recommended within 7 days"

\* C8: with a classifier whose inference succeeds the fused score is
\* (rule_score + class / 2) / 2 for the predicted class; without one, or
\* when its inference raises, it is the rule score, ml_prediction is None
\* and the factors are reported.
C8_FusedScore ==
    Scored =>
        LET ms == call.models
            latest_data == call.locals.latest_data
        IN  IF "failure_predictor" \in DOMAIN ms /\ ~call.locals.ml_raised
            THEN 2 * call.locals.risk_score
                     = call.locals.rule_score
                         + 500 * PredictedClass(ms["failure_predictor"], latest_data)
            ELSE /\ call.locals.risk_score = call.locals.rule_score
                 /\ result.ml_prediction = None
                 /\ result.factors = RuleFactors(latest_data)

\* the deductions of the health score as the claim lists them
ClaimedDeductions(r) ==
    (IF r.temperature > 60 THEN 30 ELSE IF r.temperature > 50 THEN 15
     ELSE IF r.temperature < 20 THEN 10 ELSE 0)
    + (IF r.vibration > 30 THEN 25 ELSE IF r.vibration > 20 THEN 10 ELSE 0)
    + (IF "efficiency" \notin DOMAIN r THEN 0
       ELSE IF r.efficiency < 70 THEN 20 ELSE IF r.efficiency < 80 THEN 10 ELSE 0)
    + (IF "oil_level" \notin DOMAIN r THEN 0
       ELSE IF r.oil_level < 30 THEN 25 ELSE IF r.oil_level < 50 THEN 10 ELSE 0)
    + (IF r.usage_hours > 2000 THEN 15 ELSE IF r.usage_hours > 1500 THEN 5 ELSE 0)

\* the last call was get_equipment_health_score and found a latest reading
HealthScored ==
    /\ call.op = "get_equipment_health_score"
    /\ Len(call.equipment_data) > 0

\* C9: the health score is max(0, min(100, 100 - D)) for the deductions D
\* of the latest reading, the status follows the bands 90, 75, 60, 40, and
\* {70, 0.4, 60, 20, 2500} gives 0 and Critical.
C9_HealthScore ==
    HealthScored =>
        LET r == call.equipment_data[Len(call.equipment_data)]
            d == ClaimedDeductions(r)
            score == result.health_score
        IN  /\ score = (IF d >= 100 THEN 0 ELSE 100 - d)
            /\ score >= 90 => result.status = "Excellent"
            /\ (score >= 75 /\ score < 90) => result.status = "Good"
            /\ (score >= 60 /\ score < 75) => result.status = "Fair"
            /\ (score >= 40 /\ score < 60) => result.status = "Poor"
            /\ score < 40 => result.status = "Critical"
            /\ (/\ r.temperature = 70 /\ r.vibration = 40 /\ r.usage_hours = 2500
                /\ "efficiency" \in DOMAIN r /\ "oil_level" \in DOMAIN r)
                => (score = 0 /\ result.status = "Critical")

\* C9 witness: the reading {70, 0.4, 60, 20, 2500} got its health score.
C9_Witness ==
    /\ HealthScored
    /\ call.equipment_id = 1
    /\ LET r == call.equipment_data[Len(call.equipment_data)]
       IN  /\ r.temperature = 70 /\ r.vibration = 40 /\ r.usage_hours = 2500
           /\ "efficiency" \in DOMAIN r /\ r.efficiency = 60
           /\ "oil_level" \in DOMAIN r /\ r.oil_level = 20
    /\ result.health_score = 0
    /\ result.status = "Critical"

\* the deltas and factors of the rule score as the claim lists them
ClaimedRule(r) ==
    << IF r.temperature > 60 THEN << 400, "High temperature" >>
       ELSE IF r.temperature > 50 THEN << 200, "Elevated temperature" >>
       ELSE << 0, "" >>,
       IF r.vibration > 30 THEN << 400, "High vibration" >>
       ELSE IF r.vibration > 20 THEN << 200, "Elevated vibration" >>
       ELSE << 0, "" >>,
       IF r.usage_hours > 2000 THEN << 300, "High usage hours" >>
       ELSE IF r.usage_hours > 1500 THEN << 150, "Moderate usage hours" >>
       ELSE << 0, "" >> >>

\* C10: the rule score is the sum of at most one delta per factor, and the
\* factors list holds one string per nonzero delta in the order
\* temperature, vibration, usage; 61 degrees adds 0.4 and "High
\* temperature", 45 degrees adds nothing.
C10_RuleScore ==
    Scored =>
        LET r == call.locals.latest_data
            claimed == ClaimedRule(r)
            triggered == SelectSeq(claimed, LAMBDA p : p[1] # 0)
        IN  /\ call.locals.rule_score
                   = claimed[1][1] + claimed[2][1] + claimed[3][1]
            /\ result.factors = [ i \in 1..Len(triggered) |-> triggered[i][2] ]
            /\ r.temperature = 61
                   => /\ TemperatureDelta(r) = 400
                      /\ result.factors[1] = "High temperature"
            /\ r.temperature = 45
                   => /\ TemperatureDelta(r) = 0
                      /\ \A i \in DOMAIN result.factors :
                             result.factors[i] \notin
                                 { "High temperature", "Elevated temperature" }

\* C10 witness: a reading of 61 degrees, low vibration and low usage was
\* scored 0.4 with the single factor "High temperature".
C10_Witness ==
    /\ Scored
    /\ call.locals.latest_data.temperature = 61
    /\ call.locals.rule_score = 400
    /\ result.factors = << "High temperature" >>

\* every field the rule scorer reads is at least as bad in A as in B
AtLeastAsBad(A, B) ==
    /\ A.temperature >= B.temperature
    /\ A.vibration >= B.vibration
    /\ A.usage_hours >= B.usage_hours

\* C11: under one model state, a latest reading that is at least as bad in
\* every field as another one never gets the lower risk_score, without a
\* classifier and with any fitted classifier.
C11_RiskMonotone ==
    Scored =>
        \A e \in EquipmentIds :
            LET other == PredictLocals(sensor_df, call.models, e, strict_nan)
            IN  (/\ ~other.no_data
                 /\ AtLeastAsBad(call.locals.latest_data, other.latest_data))
                    => result.risk_score
                         >= PredictReturn(other, e, 0).risk_score

\* a predict_maintenance call follows one for the same equipment
RepeatedPrediction ==
    /\ call.op = "predict_maintenance"
    /\ call'.op = "predict_maintenance"
    /\ call'.equipment_id = call.equipment_id
    /\ UNCHANGED << sensor_df, equipment_df, models >>

\* C12 as stated: with the data unchanged and no retrain, a repeated
\* predict_maintenance call returns the identical result, timestamp included.
C12_Idempotent ==
    [][RepeatedPrediction => result' = result]_vars

\* C12 amended: with the data unchanged and no retrain, a repeated
\* predict_maintenance call returns the same fields with the same values,
\* except for timestamp, which is the time of each call.
C12_IdempotentButTimestamp ==
    [][RepeatedPrediction =>
          /\ DOMAIN result' = DOMAIN result
          /\ \A f \in DOMAIN result \ { "timestamp" } : result'[f] = result[f]]_vars

\* C12 witness: a call that used the classifier returned at the later time.
C12_Witness ==
    /\ Scored
    /\ call.locals.ml_prediction # None
    /\ call.models = models
    /\ result.timestamp = MaxTime

\* C13: predict_equipment_failure for an equipment without readings
\* returns a value, whatever days_ahead is: no exception leaves the call.
C13_FailureSentinel ==
    (/\ call.op = "predict_equipment_failure"
     /\ Len(EquipmentData(sensor_df, call.equipment_id)) = 0)
        => "raised" \notin DOMAIN result

\* C14: every result of predict_maintenance has a confidence in [0,1]: in
\* the four bands, whatever the reading and the models, and in the no-data
\* result.
C14_ConfidenceInUnitInterval ==
    call.op = "predict_maintenance"
        => /\ "confidence" \in DOMAIN result
           /\ result.confidence >= 0
           /\ result.confidence <= 1000
           /\ call.locals.no_data => result.confidence = 0

\* C14 witness: a risk_score above 1 was returned with the capped
\* confidence 0.95.
C14_Witness ==
    /\ Scored
    /\ result.risk_score > 1000
    /\ result.prediction = "Immediate maintenance required"
    /\ result.confidence = 950

\* C15: get_equipment_health_score returns, for every equipment id, every
\* content of the tables and every state of the models (absent, being
\* fitted, fitted), a score in [0,100] with one of the five statuses.
C15_HealthAlwaysAvailable ==
    call.op = "get_equipment_health_score"
        => /\ "raised" \notin DOMAIN result
           /\ result.health_score \in 0..100
           /\ result.status
                \in { "Excellent", "Good", "Fair", "Poor", "Critical" }

\* C16: every result of detect_anomalies has the fields anomalies,
\* total_anomalies and timestamp, and total_anomalies is the number of
\* records in anomalies, on every path.
C16_DetectResultShape ==
    call.op = "detect_anomalies"
        => /\ { "anomalies", "total_anomalies", "timestamp" } \subseteq DOMAIN result
           /\ result.total_anomalies = Len(result.anomalies)

\* the labels of the rows whose equipment has a status of the label map
ValidLabels(df, eq_df) ==
    { FailureRisk(df[i], eq_df)[1] :
        i \in { k \in 1..Len(df) : FailureRisk(df[k], eq_df) # None } }

\* C17: the training set of _train_models is exactly the readings of
\* equipment with status Active, Warning or Critical, labeled 0, 1 and 2;
\* the other readings are not in it and do not count toward the 11 rows.
C17_TrainingSetExcludesUnmapped ==
    train_X # NoX
        => /\ Len(train_X.rows) = ValidLabeledRows(sensor_df, equipment_df)
           /\ Range(train_y) \subseteq ValidLabels(sensor_df, equipment_df)
           /\ ValidLabeledRows(sensor_df, equipment_df) >= 11

\* C18: the feature vectors of training, predict_maintenance and
\* detect_anomalies have the length and the order of the 10-field schema,
\* whichever optional columns the table has.
C18_OneFeatureSchema ==
    /\ train_X # NoX
        => /\ train_X.features = all_features
           /\ \A i \in DOMAIN train_X.rows :
                  Len(train_X.rows[i]) = Len(all_features)
    /\ \A name \in DOMAIN models :
           models[name].fitted => models[name].n_features = Len(all_features)
    /\ (Scored /\ "failure_predictor" \in DOMAIN call.models)
        => Len(call.locals.feature_values) = Len(all_features)

\* the vector of the schema with 0 for every field the row lacks or has
\* no value for
ZeroFilled(row) ==
    [ j \in 1..Len(all_features) |->
        IF all_features[j] \in DOMAIN row /\ row[all_features[j]] # NaN
        THEN row[all_features[j]]
        ELSE 0 ]

\* C19: a schema field a reading lacks (no column, or an empty cell) is 0
\* in its feature vector, in training and in inference alike; no NaN
\* reaches a model.
C19_MissingIsZero ==
    /\ train_X # NoX
        => \A i \in DOMAIN train_X.rows :
               train_X.rows[i] = ZeroFilled(sensor_df[i])
    /\ (Scored /\ "failure_predictor" \in DOMAIN call.models)
        => call.locals.feature_values = ZeroFilled(call.locals.latest_data)

\* a step of an inference call: no step of _train_models, of the
\* constructor or of a retrain
InferenceStep ==
    /\ train_pc' = train_pc
    /\ train_run' = train_run
    /\ serving' = serving

\* C20: predict_maintenance, predict_equipment_failure, detect_anomalies
\* and get_equipment_health_score leave the models and the two tables as
\* they were, on every path, so a call sees what the calls before it saw.
C20_InferenceIsPureRead ==
    [][InferenceStep => UNCHANGED << models, sensor_df, equipment_df >>]_vars

\* C20 witness: detect_anomalies took its error path (the anomaly model was
\* not fitted yet) and the models are what they were.
C20_Witness ==
    /\ call.op = "detect_anomalies"
    /\ "anomaly_detector" \in DOMAIN call.models
    /\ ~call.models["anomaly_detector"].fitted
    /\ "total_anomalies" \in DOMAIN result
    /\ models = call.models

\* C26: the model score that predict_maintenance fuses is the predicted
\* class label over 2, whatever labels the classifier was trained on: the
\* reported ml_prediction is the label, and a predicted Critical (label 2)
\* contributes 1.0 to the fused score.
C26_ModelScoreIsLabelOverTwo ==
    (Scored /\ "failure_predictor" \in DOMAIN call.models
            /\ ~call.locals.ml_raised)
        => LET label == PredictedClass(call.models["failure_predictor"],
                                       call.locals.latest_data)
           IN  /\ call.locals.ml_prediction = Some(label)
               /\ label = 2
                    => 2 * call.locals.risk_score - call.locals.rule_score
                         = 1000

\* the in-scope readings a model can score and flags, oldest first
FlaggedReadings(model, scope) ==
    SelectSeq(scope,
              LAMBDA row : /\ ~Raises(model, FeatureValues(row), strict_nan)
                           /\ DecisionFunction(model, row) < 0)

\* C27: with a fitted anomaly model detect_anomalies returns one record
\* for each in-scope reading the model flags and no other, in the order
\* of the table, with severity High when the decision score is below -0.5
\* and Medium otherwise.
C27_RecordsAreTheFlaggedReadings ==
    (/\ call.op = "detect_anomalies"
     /\ Len(sensor_df) > 0
     /\ "anomaly_detector" \in DOMAIN call.models
     /\ call.models["anomaly_detector"].fitted)
        => LET model == call.models["anomaly_detector"]
               flagged == FlaggedReadings(model,
                              ScanScope(sensor_df, call.equipment_id))
           IN  /\ Len(result.anomalies) = Len(flagged)
               /\ \A i \in 1..Min(Len(flagged), Len(result.anomalies)) :
                      /\ result.anomalies[i].equipment_id
                           = flagged[i].equipment_id
                      /\ result.anomalies[i].timestamp = flagged[i].timestamp
                      /\ result.anomalies[i].severity
                           = IF DecisionFunction(model, flagged[i]) < -500
                             THEN "High" ELSE "Medium"

\* C29: a call of detect_anomalies with an equipment_id, 0 included,
\* returns only records of that equipment.
C29_RecordsOfTheAskedEquipment ==
    (/\ call.op = "detect_anomalies"
     /\ call.equipment_id # None
     /\ "anomalies" \in DOMAIN result)
        => \A i \in 1..Len(result.anomalies) :
               result.anomalies[i].equipment_id = call.equipment_id[1]

\* the last call was generate_insights
Generated == call.op = "generate_insights"

\* the violations within the last 5 readings of one equipment
ViolationsOf(sensor_data, equipment_id) ==
    LET sensors == EquipmentSensors(sensor_data, equipment_id)
        last == SubSeq(sensors, Max(1, Len(sensors) - 4), Len(sensors))
    IN  Sum([ i \in 1..Len(last) |->
                (IF last[i].temperature > 80 THEN 1 ELSE 0)
                    + (IF last[i].vibration > 500 THEN 1 ELSE 0) ])

\* C21: the safety family emits its Multiple Violations insight exactly
\* when some equipment has at least 3 threshold violations (temperature
\* over 80, vibration over 5) within its own last 5 readings, whatever
\* readings of other equipment lie in between.
C21_SafetyPerEquipment ==
    (Generated /\ ~call.locals.raised)
        => (Len(call.locals.safety_insights) = 1
              <=> \E e \in Range(EquipmentOrder(call.sensor_objects)) :
                      ViolationsOf(call.sensor_objects, e) >= 3)

\* the maximum of the values is above num/den times their mean
AboveMean(values, num, den) ==
    den * MaxOf(values) * Len(values) > num * Sum(values)

\* the spike insights of one title the family emitted for one equipment
SpikeInsights(equipment_id, title) ==
    SelectSeq(call.locals.anomaly_insights,
              LAMBDA x : /\ x.data_points.equipment_id = equipment_id
                         /\ x.title = title)

\* the family emitted, for every equipment of the batch with at least
\* least readings, one high-impact safety insight per spike condition that
\* holds, and nothing else
SpikesFrom(least) ==
    /\ \A e \in Range(EquipmentOrder(call.sensor_objects)) :
           LET sensors == EquipmentSensors(call.sensor_objects, e)
               looked == Len(sensors) >= least
           IN  /\ Len(SpikeInsights(e, "Temperature Anomaly Detected"))
                    = IF looked /\ AboveMean(Temperatures(sensors), 13, 10)
                      THEN 1 ELSE 0
               /\ Len(SpikeInsights(e, "Vibration Anomaly Detected"))
                    = IF looked /\ AboveMean(Vibrations(sensors), 3, 2)
                      THEN 1 ELSE 0
    /\ \A i \in 1..Len(call.locals.anomaly_insights) :
           LET x == call.locals.anomaly_insights[i]
           IN  /\ x.impact = "high"
               /\ x.category = "safety"
               /\ x.title \in { "Temperature Anomaly Detected",
                                "Vibration Anomaly Detected" }
               /\ x.data_points.equipment_id
                    \in Range(EquipmentOrder(call.sensor_objects))

\* C22 as claimed: the spike family emits a high-impact safety insight for
\* an equipment exactly when its maximum temperature is above 1.3 times
\* its mean or its maximum vibration above 1.5 times its mean, for every
\* number of readings the equipment has in the batch.
C22_SpikesAtAnyCount == Generated => SpikesFrom(1)

\* C22: the spike family emits a high-impact safety insight for an
\* equipment exactly when the equipment has at least 5 readings in the
\* batch and its maximum temperature is above 1.3 times its mean or its
\* maximum vibration above 1.5 times its mean, one insight per condition;
\* an equipment with fewer than 5 readings gets none.
C22_SpikesFromFiveReadings == Generated => SpikesFrom(5)

\* an equipment with 5 readings or more has both spikes and got one
\* insight for each, in a batch with another equipment
C22_Witness ==
    /\ Generated
    /\ Len(EquipmentOrder(call.sensor_objects)) > 1
    /\ \E e \in Range(EquipmentOrder(call.sensor_objects)) :
           LET sensors == EquipmentSensors(call.sensor_objects, e)
           IN  /\ Len(sensors) >= 5
               /\ AboveMean(Temperatures(sensors), 13, 10)
               /\ AboveMean(Vibrations(sensors), 3, 2)
               /\ Len(SpikeInsights(e, "Temperature Anomaly Detected")) = 1
               /\ Len(SpikeInsights(e, "Vibration Anomaly Detected")) = 1

\* C23: over a batch of 20 readings or more that all carry an efficiency,
\* the efficiency family emits its Efficiency Decline insight exactly when
\* the mean of the last 10 readings is at least 5% below the mean of the
\* 10 readings before them.
C23_DeclineOfFivePercent ==
    (/\ Generated
     /\ Len(call.sensor_objects) >= 20
     /\ \A i \in 1..Len(call.sensor_objects) :
            call.sensor_objects[i].efficiency # None)
        => LET n == Len(call.sensor_objects)
               recent == [ i \in 1..10 |->
                             call.sensor_objects[n - 10 + i].efficiency[1] ]
               prior == [ i \in 1..10 |->
                            call.sensor_objects[n - 20 + i].efficiency[1] ]
           IN  Len(call.locals.efficiency_insights) = 1
                   <=> 100 * Sum(recent) <= 95 * Sum(prior)

\* C24: generate_insights returns a list of insights and never raises,
\* also for 10 readings or more without an efficiency and for readings of
\* an equipment that has no equipment row.
C24_NeverRaises ==
    Generated => /\ "raised" \notin DOMAIN result
                 /\ "insights" \in DOMAIN result

\* C25: generate_insights leaves insight_history and patterns_detected as
\* they were, and every family emits what it emits when it is called alone
\* on a newly constructed engine, whatever families and calls came before.
C25_FamiliesShareNoState ==
    Generated
        => /\ insight_history = call.insight_history
           /\ patterns_detected = call.patterns_detected
           /\ call.locals.anomaly_insights
                = DetectSpikes(<< >>, call.sensor_objects, equipment_df)
           /\ call.locals.maintenance_insights
                = PredictMaintenanceWindows(<< >>, equipment_df, call.draws)
           /\ call.locals.efficiency_insights
                = AnalyzeEfficiency(<< >>, call.sensor_objects).insights
           /\ ~call.locals.raised
                => /\ call.locals.energy_insights
                        = AnalyzeEnergyConsumption(<< >>, call.sensor_objects)
                   /\ call.locals.safety_insights
                        = AnalyzeSafetyMetrics(<< >>, call.sensor_objects)

\* a call in which the spike, maintenance, energy and safety families each
\* emitted
C25_Witness ==
    /\ Generated
    /\ ~call.locals.raised
    /\ call.locals.anomaly_insights # << >>
    /\ call.locals.maintenance_insights # << >>
    /\ call.locals.energy_insights # << >>
    /\ call.locals.safety_insights # << >>

\* C28: the insights one generate_insights call returns have pairwise
\* distinct ids, also when two or more families emit.
C28_DistinctIds ==
    (Generated /\ "insights" \in DOMAIN result)
        => \A i, j \in 1..Len(result.insights) :
               i # j => result.insights[i].id # result.insights[j].id

\* the positions of the rows of sensor_df that carry the timestamp
RowsAt(timestamp) ==
    { k \in 1..Len(sensor_df) : sensor_df[k].timestamp = timestamp }

\* C30: no appended reading is lost: whatever the interleaving of the
\* add_sensor_data calls, the table holds the row of every call that has
\* written, after all the rows that were in the table when the call read it.
C30_NoAppendLost ==
    \A i \in 1..Len(adding) :
        adding[i].pc = "done"
            => \E k \in RowsAt(adding[i].new_row.timestamp) :
                   \A j \in 1..Len(adding[i].df) :
                       \E before \in RowsAt(adding[i].df[j].timestamp) :
                           before < k

====
